---- MODULE Spec2Model ----
(***************************************************************************)
(* Portfolio mode of the LED matrix sketch (display/sketch/portfolio_mode): *)
(* setPortfolioMode() loads cluster descriptors and builds the pixel ->      *)
(* cluster grid, updatePortfolioPattern() runs one cohesion step per due     *)
(* cluster.                                                                  *)
(***************************************************************************)
EXTENDS Integers, Sequences, FiniteSets, TLC

VARIABLES
  inPortfolioMode,   \* bool inPortfolioMode
  clusters,          \* ClusterData clusters[MAX_CLUSTERS]
  numClusters,       \* int numClusters
  pixelClusterID,    \* uint8_t pixelClusterID[8][13], indexed [y][x]
  pixelIndices,      \* uint8_t pixelIndices[104] (main sketch)
  lastUpdateTime,    \* unsigned long lastUpdateTime[MAX_CLUSTERS]
  now,               \* the millis() clock
  lastOp,            \* history: the entry point that ran last
  input,             \* history: the argument of the last setPortfolioMode
  idxOut,            \* history: the last update computed an index >= 104 into pixelIndices
  oob,               \* history: the last update accessed memory outside an array
  updates,           \* number of update calls so far (bounds the exploration)
  offsetUsed,        \* history: pixelOffset of each cluster the last update stepped
  probe              \* a call of a helper on its own: its arguments and its result

vars == <<inPortfolioMode, clusters, numClusters, pixelClusterID, pixelIndices,
          lastUpdateTime, now, lastOp, input, idxOut, oob, updates, offsetUsed,
          probe>>

-----------------------------------------------------------------------------
(* Program constants *)

MAX_CLUSTERS == 6
MATRIX_WIDTH == 13
MATRIX_HEIGHT == 8
TOTAL_PIXELS == 104
OBJ_BUF_SIZE == 256
SYMBOL_SIZE == 10
UINT8_MOD == 2^8
HALF_MOD == 2^16           \* an unsigned long is two 16-bit halves, <<hi, lo>>

(* Bounds of the exploration *)

MaxRaw == 1                \* random() yields raw values 0..MaxRaw
MaxUpdates == 2            \* update calls explored per run
MaxOob == 1                \* bytes found outside an array: 0..MaxOob and 104..104+MaxOob

Slots == 0 .. (MAX_CLUSTERS - 1)
Positions == 0 .. (TOTAL_PIXELS - 1)
Rows == 0 .. (MATRIX_HEIGHT - 1)
Cols == 0 .. (MATRIX_WIDTH - 1)
RawValues == 0 .. MaxRaw

\* What a read past the end of a uint8_t array can return. Every byte is a
\* possible outcome; the exploration covers in-grid positions / small ids and
\* values beyond the grid.
OobBytes == (0 .. MaxOob) \cup (TOTAL_PIXELS .. (TOTAL_PIXELS + MaxOob))

Max(a, b) == IF a >= b THEN a ELSE b

\* 32-bit unsigned arithmetic on <<hi, lo>>
ULong(hi, lo) == <<hi, lo>>

\* a + d modulo 2^32, for 0 <= d < 2^16
ULongAdd(a, d) ==
  <<(a[1] + ((a[2] + d) \div HALF_MOD)) % HALF_MOD, (a[2] + d) % HALF_MOD>>

\* a - b modulo 2^32
ULongSub(a, b) ==
  <<(a[1] - b[1] - (IF a[2] < b[2] THEN 1 ELSE 0)) % HALF_MOD,
    (a[2] - b[2]) % HALF_MOD>>

\* a < (unsigned long)v, for 0 <= v < 2^16
ULongLess(a, v) == a[1] = 0 /\ a[2] < v

-----------------------------------------------------------------------------
(* Helpers of the sketch *)

\* Arduino's constrain(amt, low, high) macro
constrain(amt, low, high) ==
  IF amt < low THEN low ELSE IF amt > high THEN high ELSE amt

\* conversion of an int to uint8_t
ToUint8(v) == v % UINT8_MOD

\* Arduino's random(howbig): raw % howbig, 0 for howbig = 0
random(raw, howbig) == IF howbig = 0 THEN 0 ELSE raw % howbig

\* extractInt: the integer after "key":, 0 when the key is absent
extractInt(obj, key) ==
  IF key \in DOMAIN obj.ints THEN obj.ints[key] ELSE 0

\* extractString: at most maxLen-1 characters of the value, "" when absent
extractString(obj, key, maxLen) ==
  IF key \in DOMAIN obj.strs
    THEN LET s == obj.strs[key]
         IN  SubSeq(s, 1, IF Len(s) < maxLen - 1 THEN Len(s) ELSE maxLen - 1)
    ELSE << >>

\* faulty variant: the constrain of line 96 is missing
ParseFields_SpeedAsSent(obj) ==
  [ clusterID  |-> extractInt(obj, "cluster_id"),
    pixels     |-> constrain(extractInt(obj, "pixels"), 0, TOTAL_PIXELS),
    brightness |-> constrain(ToUint8(extractInt(obj, "brightness")), 80, 220),
    clustering |-> constrain(extractInt(obj, "clustering"), 1, 10),
    speed      |-> extractInt(obj, "speed"),
    symbol     |-> extractString(obj, "symbol", SYMBOL_SIZE) ]

\* parseClusterData, lines 84-96: one record's fields, cast and constrained
ParseFields(obj) ==
  [ clusterID  |-> extractInt(obj, "cluster_id"),
    pixels     |-> constrain(extractInt(obj, "pixels"), 0, TOTAL_PIXELS),
    brightness |-> constrain(ToUint8(extractInt(obj, "brightness")), 80, 220),
    clustering |-> constrain(extractInt(obj, "clustering"), 1, 10),
    speed      |-> constrain(extractInt(obj, "speed"), 10, 500),
    symbol     |-> extractString(obj, "symbol", SYMBOL_SIZE) ]

\* parseClusterData, the while loop: objs[i..] is the text after pos
RECURSIVE ParseLoop(_, _, _, _)
ParseLoop(cl, n, objs, i) ==
  IF n >= MAX_CLUSTERS THEN [clusters |-> cl, numClusters |-> n]
  ELSE IF i > Len(objs) THEN [clusters |-> cl, numClusters |-> n]      \* no '{'
  ELSE IF ~objs[i].closed THEN [clusters |-> cl, numClusters |-> n]   \* no '}'
  ELSE IF objs[i].len >= OBJ_BUF_SIZE THEN [clusters |-> cl, numClusters |-> n]
  ELSE ParseLoop([cl EXCEPT ![n] = ParseFields(objs[i])], n + 1, objs, i + 1)

\* faulty variant: the numClusters = 0 of line 60 is missing, records are appended
parseClusterData_NoReset(cl, json) ==
  IF ~json.array THEN [clusters |-> cl, numClusters |-> numClusters]
  ELSE ParseLoop(cl, numClusters, json.objs, 1)

\* parseClusterData: numClusters = 0, then the array is scanned
parseClusterData(cl, json) ==
  IF ~json.array THEN [clusters |-> cl, numClusters |-> 0]
  ELSE ParseLoop(cl, 0, json.objs, 1)

\* setPortfolioMode, lines 122-125: one iteration of the inner loop
AssignPixel(grid, cluster, ord, pixelIdx) ==
  LET pos == ord[pixelIdx]
      x == pos % MATRIX_WIDTH
      y == pos \div MATRIX_WIDTH
  IN  [grid EXCEPT ![y][x] = ToUint8(cluster.clusterID)]

\* the iterations for pixelIdx = lo .. hi, in order: those up to the middle,
\* then the rest on the grid g they leave
RECURSIVE AssignRange(_, _, _, _, _)
AssignRange(grid, cluster, ord, lo, hi) ==
  IF lo > hi THEN grid
  ELSE IF lo = hi THEN AssignPixel(grid, cluster, ord, lo)
  ELSE LET mid == (lo + hi) \div 2
       IN  CHOOSE r \in { AssignRange(g, cluster, ord, mid + 1, hi) :
                            g \in { AssignRange(grid, cluster, ord, lo, mid) } } : TRUE

\* setPortfolioMode, lines 121-127: the inner loop for one cluster starting
\* at pixelIdx; it stops after clusterPixels iterations or at TOTAL_PIXELS
AssignCluster(grid, cluster, ord, pixelIdx) ==
  AssignRange(grid, cluster, ord, pixelIdx,
              (IF pixelIdx + cluster.pixels < TOTAL_PIXELS
                 THEN pixelIdx + cluster.pixels ELSE TOTAL_PIXELS) - 1)

\* pixelIdx after that inner loop
AssignedUpTo(cluster, pixelIdx) ==
  IF pixelIdx + cluster.pixels < TOTAL_PIXELS
    THEN pixelIdx + cluster.pixels
    ELSE Max(pixelIdx, TOTAL_PIXELS)

\* setPortfolioMode, lines 118-128: the outer loop from cluster c on
RECURSIVE AssignLoop(_, _, _, _, _, _)
AssignLoop(grid, cl, n, ord, c, pixelIdx) ==
  IF c >= n THEN grid
  ELSE AssignLoop(AssignCluster(grid, cl[c], ord, pixelIdx), cl, n, ord, c + 1,
                  AssignedUpTo(cl[c], pixelIdx))

ZeroGrid == [y \in Rows |-> [x \in Cols |-> 0]]

\* faulty variant: the memset of line 114 is missing
AssignPixels_NoClear(cl, n, ord) == AssignLoop(pixelClusterID, cl, n, ord, 0, 0)

\* setPortfolioMode, lines 114-128: memset, then the allocation
AssignPixels(cl, n, ord) == AssignLoop(ZeroGrid, cl, n, ord, 0, 0)

ZeroTimers == [i \in Slots |-> ULong(0, 0)]

\* no cluster has run a cohesion step
NoOffsets == [i \in Slots |-> -1]

-----------------------------------------------------------------------------
(* Neighbor scorer *)

\* faulty variant: the dx == 0 && dy == 0 test of lines 143 and 161 is missing
Neighbours_WithCentre(x, y) ==
  { d \in {-1, 0, 1} \X {-1, 0, 1} :
      /\ x + d[1] >= 0 /\ x + d[1] < MATRIX_WIDTH
      /\ y + d[2] >= 0 /\ y + d[2] < MATRIX_HEIGHT }

\* the (dx, dy) of lines 141-146 whose cell is looked at
Neighbours(x, y) ==
  { d \in {-1, 0, 1} \X {-1, 0, 1} :
      /\ ~(d[1] = 0 /\ d[2] = 0)                       \* skip center pixel
      /\ x + d[1] >= 0 /\ x + d[1] < MATRIX_WIDTH
      /\ y + d[2] >= 0 /\ y + d[2] < MATRIX_HEIGHT }

\* countClusterNeighbors: in-bounds neighbours equal to targetClusterID
countClusterNeighbors(grid, x, y, targetClusterID) ==
  Cardinality({ d \in Neighbours(x, y) :
                  grid[y + d[2]][x + d[1]] = targetClusterID })

\* countOtherClusterNeighbors: in-bounds neighbours nonzero and not ownClusterID
countOtherClusterNeighbors(grid, x, y, ownClusterID) ==
  Cardinality({ d \in Neighbours(x, y) :
                  /\ grid[y + d[2]][x + d[1]] # 0
                  /\ grid[y + d[2]][x + d[1]] # ownClusterID })

-----------------------------------------------------------------------------
(* Cohesion engine.  m is the memory an update works on:                    *)
(* [ord, grid, last, idxOut, oob, offs].  mem: the bytes found past the end *)
(* of pixelIndices, gmem those past the end of pixelClusterID.              *)

\* pixelIndices[idx]; past the array the read returns whatever lies there
ReadOrd(ord, mem, idx) == IF idx < TOTAL_PIXELS THEN ord[idx] ELSE mem[idx]

\* pixelIndices[idx] = v; a store past the array leaves the array as it is
WriteOrd(ord, idx, v) == IF idx < TOTAL_PIXELS THEN [ord EXCEPT ![idx] = v] ELSE ord

\* pixelClusterID[pos / 13][pos % 13]
ReadGrid(grid, gmem, pos) ==
  IF pos < TOTAL_PIXELS THEN grid[pos \div MATRIX_WIDTH][pos % MATRIX_WIDTH]
  ELSE gmem[pos]

WriteGrid(grid, pos, v) ==
  IF pos < TOTAL_PIXELS
    THEN [grid EXCEPT ![pos \div MATRIX_WIDTH][pos % MATRIX_WIDTH] = v]
    ELSE grid

\* score of the pixel at logical index idx, lines 204-211 and 225-232
Score(grid, ord, mem, cluster, idx) ==
  LET pos == ReadOrd(ord, mem, idx)
      x == pos % MATRIX_WIDTH
      y == pos \div MATRIX_WIDTH
  IN  countClusterNeighbors(grid, x, y, cluster.clusterID)
        - countOtherClusterNeighbors(grid, x, y, cluster.clusterID)

\* one sampling loop, lines 202-217 and 223-238; s holds the raw random draws
RECURSIVE SampleLoop(_, _, _, _, _, _, _, _, _)
\* faulty variant: score >= worstScore, the last of the best samples wins
SampleLoop_LastWins(grid, ord, mem, cluster, pixelOffset, s, i, bestIdx, bestScore) ==
  IF i > cluster.clustering THEN bestIdx
  ELSE LET idx == pixelOffset + random(s[i], cluster.pixels)
           score == Score(grid, ord, mem, cluster, idx)
       IN  IF score >= bestScore
             THEN SampleLoop(grid, ord, mem, cluster, pixelOffset, s, i + 1, idx, score)
             ELSE SampleLoop(grid, ord, mem, cluster, pixelOffset, s, i + 1,
                             bestIdx, bestScore)

SampleLoop(grid, ord, mem, cluster, pixelOffset, s, i, bestIdx, bestScore) ==
  IF i > cluster.clustering THEN bestIdx
  ELSE LET idx == pixelOffset + random(s[i], cluster.pixels)
           score == Score(grid, ord, mem, cluster, idx)
       IN  IF score > bestScore
             THEN SampleLoop(grid, ord, mem, cluster, pixelOffset, s, i + 1, idx, score)
             ELSE SampleLoop(grid, ord, mem, cluster, pixelOffset, s, i + 1,
                             bestIdx, bestScore)

\* one selection pass, lines 198-217 and 220-238: fallback draw, then the samples
SelectPass(grid, ord, mem, cluster, pixelOffset, fb, s) ==
  SampleLoop(grid, ord, mem, cluster, pixelOffset, s, 1,
             pixelOffset + random(fb, cluster.pixels), -100)

\* faulty variant: the cell the pixel leaves is cleared instead of receiving
\* the clusterID of the other cell
SwapPixels_ClearSource(m, mem, gmem, bestIsolatedIdx, bestTargetIdx) ==
  IF bestIsolatedIdx = bestTargetIdx THEN m
  ELSE LET temp == ReadOrd(m.ord, mem, bestIsolatedIdx)
           other == ReadOrd(m.ord, mem, bestTargetIdx)
           ord1 == WriteOrd(m.ord, bestIsolatedIdx, other)
           ord2 == WriteOrd(ord1, bestTargetIdx, temp)
           pos1 == other
           pos2 == temp
           grid1 == WriteGrid(m.grid, pos1, ReadGrid(m.grid, gmem, pos2))
           grid2 == WriteGrid(grid1, pos2, 0)
       IN  [m EXCEPT !.ord = ord2, !.grid = grid2,
                     !.oob = m.oob \/ pos1 >= TOTAL_PIXELS \/ pos2 >= TOTAL_PIXELS]

\* faulty variant: the store of temp, line 244, is missing
SwapPixels_LostTemp(m, mem, gmem, bestIsolatedIdx, bestTargetIdx) ==
  IF bestIsolatedIdx = bestTargetIdx THEN m
  ELSE LET other == ReadOrd(m.ord, mem, bestTargetIdx)
           ord1 == WriteOrd(m.ord, bestIsolatedIdx, other)
           pos1 == other
           pos2 == other
           tempID == ReadGrid(m.grid, gmem, pos1)
           grid1 == WriteGrid(m.grid, pos1, ReadGrid(m.grid, gmem, pos2))
           grid2 == WriteGrid(grid1, pos2, tempID)
       IN  [m EXCEPT !.ord = ord1, !.grid = grid2,
                     !.oob = m.oob \/ pos1 >= TOTAL_PIXELS \/ pos2 >= TOTAL_PIXELS]

\* the swap, lines 241-258
SwapPixels(m, mem, gmem, bestIsolatedIdx, bestTargetIdx) ==
  IF bestIsolatedIdx = bestTargetIdx THEN m
  ELSE LET temp == ReadOrd(m.ord, mem, bestIsolatedIdx)
           other == ReadOrd(m.ord, mem, bestTargetIdx)
           ord1 == WriteOrd(m.ord, bestIsolatedIdx, other)
           ord2 == WriteOrd(ord1, bestTargetIdx, temp)
           pos1 == other
           pos2 == temp
           tempID == ReadGrid(m.grid, gmem, pos1)
           grid1 == WriteGrid(m.grid, pos1, ReadGrid(m.grid, gmem, pos2))
           grid2 == WriteGrid(grid1, pos2, tempID)
       IN  [m EXCEPT !.ord = ord2, !.grid = grid2,
                     !.oob = m.oob \/ pos1 >= TOTAL_PIXELS \/ pos2 >= TOTAL_PIXELS]

\* the logical index a raw draw r yields for a cluster at pixelOffset
DrawnIdx(cluster, pixelOffset, r) == pixelOffset + random(r, cluster.pixels)

\* what one selection pass can yield, over the draws of random(): the index it
\* picks, whether it computed an index >= 104 (out) and whether it read
\* pixelIndices there (read)
PassOutcomes(grid, ord, mem, cluster, pixelOffset) ==
  LET K == 1 .. cluster.clustering
  IN  { [ idx  |-> SelectPass(grid, ord, mem, cluster, pixelOffset, fb, s),
          out  |-> \/ DrawnIdx(cluster, pixelOffset, fb) >= TOTAL_PIXELS
                   \/ \E i \in K : DrawnIdx(cluster, pixelOffset, s[i]) >= TOTAL_PIXELS,
          read |-> \E i \in K : DrawnIdx(cluster, pixelOffset, s[i]) >= TOTAL_PIXELS ] :
        fb \in RawValues, s \in [K -> RawValues] }

\* lines 240-258 after the passes picked iso and tgt; the set ranges over the
\* bytes found past the end of pixelClusterID
SwapOutcomes(m, mem, iso, tgt) ==
  LET m1 == [m EXCEPT !.idxOut = m.idxOut \/ iso.out \/ tgt.out,
                      !.oob = m.oob \/ iso.read \/ tgt.read]
      pos1 == ReadOrd(m.ord, mem, tgt.idx)
      pos2 == ReadOrd(m.ord, mem, iso.idx)
      past == IF iso.idx = tgt.idx THEN {}
              ELSE { p \in {pos1, pos2} : p >= TOTAL_PIXELS }
  IN  { SwapPixels(m1, mem, gmem, iso.idx, tgt.idx) : gmem \in [past -> OobBytes] }

\* lines 198-258 for a due cluster with pixels > 0 when mem lies past the end
\* of pixelIndices: the isolation pass, the target pass, the swap
CohesionUnder(m, mem, cluster, pixelOffset) ==
  UNION { SwapOutcomes(m, mem, iso, tgt) :
            iso \in PassOutcomes(m.grid, m.ord, mem, cluster, pixelOffset),
            tgt \in PassOutcomes(m.grid, m.ord, mem, cluster, pixelOffset) }

\* every outcome of lines 198-258, whatever lies past the end of pixelIndices
CohesionStep(m, cluster, pixelOffset) ==
  LET beyond == { i \in { DrawnIdx(cluster, pixelOffset, r) : r \in RawValues } :
                    i >= TOTAL_PIXELS }
  IN  UNION { CohesionUnder(m, mem, cluster, pixelOffset) :
                mem \in [beyond -> OobBytes] }

\* line 184: the cluster is not yet due (unsigned arithmetic)
NotDue(currentTime, last, speed) == ULongLess(ULongSub(currentTime, last), speed)

\* faulty variant: a skipped cluster does not advance the offset
OffsetAfterSkip_Stuck(pixelOffset, cluster) == pixelOffset

\* line 185: the offset after a skipped cluster
OffsetAfterSkip(pixelOffset, cluster) == pixelOffset + cluster.pixels

\* line 260: the offset after a stepped cluster
OffsetAfterStep(pixelOffset, cluster) == pixelOffset + cluster.pixels

\* the for loop of updatePortfolioPattern, lines 180-261, from cluster c on
RECURSIVE UpdateLoop(_, _, _, _, _, _)
\* faulty variant: the timer is refreshed before the due test, on skips too
UpdateLoop_RefreshOnSkip(m, cl, n, c, pixelOffset, currentTime) ==
  IF c >= n THEN {m}
  ELSE IF NotDue(currentTime, m.last[c], cl[c].speed)
    THEN UpdateLoop([m EXCEPT !.last[c] = currentTime], cl, n, c + 1,
                    OffsetAfterSkip(pixelOffset, cl[c]), currentTime)
  ELSE LET m1 == [m EXCEPT !.last[c] = currentTime]
       IN  IF cl[c].pixels = 0
             THEN UpdateLoop(m1, cl, n, c + 1, pixelOffset, currentTime)
             ELSE UNION { UpdateLoop(m2, cl, n, c + 1,
                                     OffsetAfterStep(pixelOffset, cl[c]), currentTime) :
                            m2 \in CohesionStep([m1 EXCEPT !.offs[c] = pixelOffset],
                                                cl[c], pixelOffset) }

\* faulty variant: a cluster that is not due ends the loop (break for continue)
UpdateLoop_BreakOnSkip(m, cl, n, c, pixelOffset, currentTime) ==
  IF c >= n THEN {m}
  ELSE IF NotDue(currentTime, m.last[c], cl[c].speed) THEN {m}
  ELSE LET m1 == [m EXCEPT !.last[c] = currentTime]
       IN  IF cl[c].pixels = 0
             THEN UpdateLoop(m1, cl, n, c + 1, pixelOffset, currentTime)
             ELSE UNION { UpdateLoop(m2, cl, n, c + 1,
                                     OffsetAfterStep(pixelOffset, cl[c]), currentTime) :
                            m2 \in CohesionStep([m1 EXCEPT !.offs[c] = pixelOffset],
                                                cl[c], pixelOffset) }

UpdateLoop(m, cl, n, c, pixelOffset, currentTime) ==
  IF c >= n THEN {m}
  ELSE IF NotDue(currentTime, m.last[c], cl[c].speed)
    THEN UpdateLoop(m, cl, n, c + 1, OffsetAfterSkip(pixelOffset, cl[c]), currentTime)
  ELSE LET m1 == [m EXCEPT !.last[c] = currentTime]
       IN  IF cl[c].pixels = 0
             THEN UpdateLoop(m1, cl, n, c + 1, pixelOffset, currentTime)
             ELSE UNION { UpdateLoop(m2, cl, n, c + 1,
                                     OffsetAfterStep(pixelOffset, cl[c]), currentTime) :
                            m2 \in CohesionStep([m1 EXCEPT !.offs[c] = pixelOffset],
                                                cl[c], pixelOffset) }

\* faulty variant: the loop runs over all MAX_CLUSTERS slots
updatePortfolioPattern_AllSlots(currentTime) ==
  UpdateLoop([ord |-> pixelIndices, grid |-> pixelClusterID,
              last |-> lastUpdateTime, idxOut |-> FALSE, oob |-> FALSE,
              offs |-> NoOffsets],
             clusters, MAX_CLUSTERS, 0, 0, currentTime)

\* updatePortfolioPattern with millis() = currentTime: the possible outcomes
updatePortfolioPattern(currentTime) ==
  UpdateLoop([ord |-> pixelIndices, grid |-> pixelClusterID,
              last |-> lastUpdateTime, idxOut |-> FALSE, oob |-> FALSE,
              offs |-> NoOffsets],
             clusters, numClusters, 0, 0, currentTime)

\* faulty variant: the grid and the timers are reset before the numClusters == 0 return
setPortfolioMode_ClearFirst(json) ==
  LET parsed == parseClusterData(clusters, json)
  IN  [ inPortfolioMode |-> parsed.numClusters # 0,
        clusters        |-> parsed.clusters,
        numClusters     |-> parsed.numClusters,
        pixelClusterID  |-> AssignPixels(parsed.clusters, parsed.numClusters,
                                         pixelIndices),
        pixelIndices    |-> pixelIndices,
        lastUpdateTime  |-> ZeroTimers ]

\* setPortfolioMode: the values of the globals after the call
setPortfolioMode(json) ==
  LET parsed == parseClusterData(clusters, json)
  IN  IF parsed.numClusters = 0
        THEN [ inPortfolioMode |-> FALSE,
               clusters        |-> parsed.clusters,
               numClusters     |-> parsed.numClusters,
               pixelClusterID  |-> pixelClusterID,
               pixelIndices    |-> pixelIndices,
               lastUpdateTime  |-> lastUpdateTime ]
        ELSE [ inPortfolioMode |-> TRUE,
               clusters        |-> parsed.clusters,
               numClusters     |-> parsed.numClusters,
               pixelClusterID  |-> AssignPixels(parsed.clusters, parsed.numClusters,
                                                pixelIndices),
               pixelIndices    |-> pixelIndices,
               lastUpdateTime  |-> ZeroTimers ]

-----------------------------------------------------------------------------
(* Inputs *)

\* one {...} record of the JSON text: its length in bytes, whether its '}'
\* is there, and the keys it holds
Obj(id, px, br, cs, sp, sym) ==
  [ closed |-> TRUE, len |-> 90,
    ints |-> [ cluster_id |-> id, pixels |-> px, brightness |-> br,
               clustering |-> cs, speed |-> sp ],
    strs |-> [ symbol |-> sym ] ]

Unclosed(o) == [o EXCEPT !.closed = FALSE]
TooLong(o) == [o EXCEPT !.len = 300]

\* a record with only cluster_id and pixels: the other keys are missing
Bare(id, px) ==
  [ closed |-> TRUE, len |-> 30,
    ints |-> [ cluster_id |-> id, pixels |-> px ],
    strs |-> << >> ]

Json(objs) == [array |-> TRUE, objs |-> objs]

AAPL == <<"A", "A", "P", "L">>
LongSym == <<"B", "E", "R", "K", "S", "H", "I", "R", "E", "H", "A">>

\* the configurations the host sends; cluster ids stay in the documented 0..5
Inputs ==
  { [array |-> FALSE, objs |-> << Obj(1, 3, 200, 2, 50, AAPL) >>],      \* no '['
    Json(<< >>),                                                       \* []
    Json(<< Obj(1, 2, 200, 2, 50, <<"X">>), TooLong(Obj(2, 3, 180, 2, 10, AAPL)),
            Obj(3, 3, 180, 2, 10, AAPL) >>),
    Json(<< Obj(1, 3, 180, 2, 20, AAPL), Obj(2, 2, 100, 1, 10, LongSym),
            Unclosed(Obj(3, 3, 180, 2, 10, AAPL)) >>),
    Json(<< Obj(1, 500, -1, 0, 9999, AAPL), Obj(2, -5, 300, 50, 0, AAPL) >>),
    Json(<< Obj(1, 103, 200, 1, 10, AAPL), Obj(2, 2, 200, 1, 10, AAPL) >>),
    Json(<< Obj(1, 1, 100, 1, 20, AAPL), Bare(2, 0), Bare(3, 2), Bare(4, 1),
            Bare(5, 1), Bare(0, 1), Bare(1, 4) >>) }

\* pixelIndices as the main sketch leaves it (a permutation of 0..103) and
\* millis() when the sketch enters this mode
Starts ==
  { [ord |-> [i \in Positions |-> i], time |-> ULong(0, 0)],
    [ord |-> [i \in Positions |-> (TOTAL_PIXELS - 1) - i],
     time |-> ULong(HALF_MOD - 1, HALF_MOD - 15)] }

\* the time between two frames
FrameTimes == { 5, 10 }

NoProbe == [fn |-> "none"]

ZeroCluster ==
  [ clusterID |-> 0, pixels |-> 0, brightness |-> 0, clustering |-> 0,
    speed |-> 0, symbol |-> << >> ]

-----------------------------------------------------------------------------
(* The state machine *)

Init ==
  /\ inPortfolioMode = FALSE
  /\ clusters = [i \in Slots |-> ZeroCluster]
  /\ numClusters = 0
  /\ pixelClusterID = ZeroGrid
  /\ \E s \in Starts : pixelIndices = s.ord /\ now = s.time
  /\ lastUpdateTime = ZeroTimers
  /\ lastOp = "init"
  /\ input = Json(<< >>)
  /\ idxOut = FALSE
  /\ oob = FALSE
  /\ updates = 0
  /\ offsetUsed = NoOffsets
  /\ probe = NoProbe

\* the host calls setPortfolioMode(json)
SetPortfolioMode ==
  /\ ~oob
  /\ \E json \in Inputs :
       \E r \in { setPortfolioMode(json) } :
         /\ inPortfolioMode' = r.inPortfolioMode
         /\ clusters' = r.clusters
         /\ numClusters' = r.numClusters
         /\ pixelClusterID' = r.pixelClusterID
         /\ pixelIndices' = r.pixelIndices
         /\ lastUpdateTime' = r.lastUpdateTime
         /\ input' = json
  /\ lastOp' = "apply"
  /\ idxOut' = FALSE
  /\ offsetUsed' = NoOffsets
  /\ UNCHANGED <<now, oob, updates, probe>>

\* the host loop calls updatePortfolioPattern() one frame later
UpdatePortfolioPattern ==
  /\ ~oob
  /\ updates < MaxUpdates
  /\ \E dt \in FrameTimes :
       /\ now' = ULongAdd(now, dt)
       /\ \E m \in updatePortfolioPattern(ULongAdd(now, dt)) :
            /\ pixelIndices' = m.ord
            /\ pixelClusterID' = m.grid
            /\ lastUpdateTime' = m.last
            /\ idxOut' = m.idxOut
            /\ oob' = m.oob
            /\ offsetUsed' = m.offs
  /\ lastOp' = "update"
  /\ updates' = updates + 1
  /\ UNCHANGED <<inPortfolioMode, clusters, numClusters, input, probe>>

Next == SetPortfolioMode \/ UpdatePortfolioPattern

Spec == Init /\ [][Next]_vars

-----------------------------------------------------------------------------
(* The helpers on their own: the neighbor scorer and one selection pass,     *)
(* called on the state a first setPortfolioMode leaves.                      *)

\* the cluster ids of the descriptor format: 0 = background, 1-5 = holdings
ClusterIds == 0 .. (MAX_CLUSTERS - 1)

\* pixelOffset when the loop of updatePortfolioPattern reaches cluster c
RECURSIVE OffsetOf(_, _)
OffsetOf(cl, c) == IF c = 0 THEN 0 ELSE OffsetOf(cl, c - 1) + cl[c - 1].pixels

HelperInit ==
  /\ \E json \in Inputs, s \in Starts :
       \E parsed \in { parseClusterData([i \in Slots |-> ZeroCluster], json) } :
         /\ parsed.numClusters > 0
         /\ inPortfolioMode = TRUE
         /\ clusters = parsed.clusters
         /\ numClusters = parsed.numClusters
         /\ pixelClusterID = AssignPixels(parsed.clusters, parsed.numClusters, s.ord)
         /\ pixelIndices = s.ord
         /\ now = s.time
         /\ input = json
  /\ lastUpdateTime = ZeroTimers
  /\ lastOp = "apply"
  /\ idxOut = FALSE
  /\ oob = FALSE
  /\ updates = 0
  /\ offsetUsed = NoOffsets
  /\ probe = NoProbe

\* countClusterNeighbors(x, y, id) and countOtherClusterNeighbors(x, y, id)
CountNeighbors ==
  /\ probe = NoProbe
  /\ \E x \in Cols, y \in Rows, id \in ClusterIds :
       probe' = [ fn |-> "count", x |-> x, y |-> y, id |-> id,
                  same |-> countClusterNeighbors(pixelClusterID, x, y, id),
                  other |-> countOtherClusterNeighbors(pixelClusterID, x, y, id) ]
  /\ UNCHANGED <<inPortfolioMode, clusters, numClusters, pixelClusterID,
                 pixelIndices, lastUpdateTime, now, lastOp, input, idxOut, oob,
                 updates, offsetUsed>>

\* one selection pass of a cluster with pixels: the fallback draw fb, the
\* sample draws s, and mem past the end of pixelIndices
SelectCandidate ==
  /\ probe = NoProbe
  /\ \E c \in 0 .. (numClusters - 1) :
       /\ clusters[c].pixels > 0
       /\ \E off \in { OffsetOf(clusters, c) } :
            \E fb \in RawValues, s \in [1 .. clusters[c].clustering -> RawValues],
               mem \in [{ i \in { DrawnIdx(clusters[c], off, r) : r \in RawValues } :
                            i >= TOTAL_PIXELS } -> OobBytes] :
              probe' = [ fn |-> "select", c |-> c, pixelOffset |-> off,
                         fb |-> fb, s |-> s, mem |-> mem,
                         idx |-> SelectPass(pixelClusterID, pixelIndices, mem,
                                            clusters[c], off, fb, s) ]
  /\ UNCHANGED <<inPortfolioMode, clusters, numClusters, pixelClusterID,
                 pixelIndices, lastUpdateTime, now, lastOp, input, idxOut, oob,
                 updates, offsetUsed>>

HelperNext == CountNeighbors \/ SelectCandidate

HelperSpec == HelperInit /\ [][HelperNext]_vars

-----------------------------------------------------------------------------
(* Vocabulary of the properties *)

\* the logical indices [offset_c, offset_c + pixels_c) of cluster c
IndicesOf(cl, c) ==
  UNION { off .. (off + cl[c].pixels - 1) : off \in { OffsetOf(cl, c) } }

\* the logical range of cluster c, cut at the capacity of pixelIndices
RangeOf(cl, c) == IndicesOf(cl, c) \cap Positions

Active == 0 .. (numClusters - 1)

SumPixels == OffsetOf(clusters, numClusters)

CellAt(grid, pos) == grid[pos \div MATRIX_WIDTH][pos % MATRIX_WIDTH]

IsPermutation(ord) == \A p \in Positions : \E i \in Positions : ord[i] = p

ValuesIn(grid) == { grid[y][x] : y \in Rows, x \in Cols }

CountOf(grid, v) == Cardinality({ c \in Rows \X Cols : grid[c[1]][c[2]] = v })

Globals ==
  [ inPortfolioMode |-> inPortfolioMode, clusters |-> clusters,
    numClusters |-> numClusters, pixelClusterID |-> pixelClusterID,
    pixelIndices |-> pixelIndices, lastUpdateTime |-> lastUpdateTime ]

\* an input from which parseClusterData gets no cluster
ZeroClusterInput(json) ==
  \/ ~json.array
  \/ json.objs = << >>
  \/ ~json.objs[1].closed
  \/ json.objs[1].len >= OBJ_BUF_SIZE

-----------------------------------------------------------------------------
(* C1 *)

\* the configurations C1 speaks of: two clusters with distinct nonzero ids and
\* nonzero pixel counts, pixel counts summing to at most 104, a permutation
C1_Config ==
  /\ inPortfolioMode
  /\ SumPixels <= TOTAL_PIXELS
  /\ IsPermutation(pixelIndices)
  /\ \E a, b \in Active :
       /\ clusters[a].clusterID # 0 /\ clusters[b].clusterID # 0
       /\ clusters[a].clusterID # clusters[b].clusterID
       /\ clusters[a].pixels > 0 /\ clusters[b].pixels > 0

\* C1: the animation moves pixels on the grid: under such a configuration an
\* update that moves pixels (exchanges two entries of the pixel ordering)
\* changes the clusterID of some grid cell.
C1_UpdateMovesGrid ==
  [][(lastOp' = "update" /\ C1_Config /\ pixelIndices' # pixelIndices)
       => pixelClusterID' # pixelClusterID]_vars

\* What the code does instead: while the pixel counts fit the matrix no update
\* ever changes a grid cell, so no sequence of updates makes the grid differ
\* from the one setPortfolioMode built.
C1_GridFixedByUpdate ==
  [][(lastOp' = "update" /\ SumPixels <= TOTAL_PIXELS)
       => pixelClusterID' = pixelClusterID]_vars

-----------------------------------------------------------------------------
(* C2 *)

\* C2: every logical index an update computes for the pixel ordering (the
\* fallback, the sampled and the swapped indices) lies in [0, 104), for any
\* loaded configuration.
C2_IndicesInBounds == idxOut = FALSE

-----------------------------------------------------------------------------
(* C3 *)

\* C3: the loaded pixel counts of the active clusters sum to at most 104.
C3_PixelSumWithinCapacity == SumPixels <= TOTAL_PIXELS

-----------------------------------------------------------------------------
(* C4 *)

\* C4: right after a setPortfolioMode that yields at least one cluster, the
\* cell of pixelIndices[i] holds the clusterID of the cluster whose logical
\* range contains i, and 0 when i lies in no cluster's range.
C4_GridMatchesRanges ==
  (lastOp = "apply" /\ numClusters > 0) =>
    \A R \in { [c \in Active |-> RangeOf(clusters, c)] } :
      \A i \in Positions :
        /\ \A c \in Active :
             i \in R[c] =>
               CellAt(pixelClusterID, pixelIndices[i]) = clusters[c].clusterID
        /\ (\A c \in Active : i \notin R[c]) =>
             CellAt(pixelClusterID, pixelIndices[i]) = 0

\* a reconfiguration to two clusters that leaves part of the matrix unassigned,
\* applied over a grid that an earlier configuration had filled differently
C4_Witness ==
  /\ lastOp = "apply" /\ numClusters = 2 /\ updates > 0
  /\ clusters[0].pixels > 0 /\ clusters[1].pixels > 0
  /\ SumPixels < TOTAL_PIXELS
  /\ CellAt(pixelClusterID, pixelIndices[0]) = clusters[0].clusterID
  /\ CellAt(pixelClusterID, pixelIndices[TOTAL_PIXELS - 1]) = 0

-----------------------------------------------------------------------------
(* C5 *)

\* C5: an update leaves, for every clusterID value, the number of grid cells
\* holding it unchanged.
C5_CountsPreserved ==
  [][lastOp' = "update" =>
       \A v \in ValuesIn(pixelClusterID) \cup ValuesIn(pixelClusterID') :
         CountOf(pixelClusterID', v) = CountOf(pixelClusterID, v)]_vars

-----------------------------------------------------------------------------
(* C6 *)

\* C6: in an update at time t, a cluster with (t - lastUpdateTime[c]) <
\* animationSpeedMs[c] in unsigned arithmetic does nothing: its timer and the
\* ordering entries of its logical range are unchanged.
C6_NotDueUntouched ==
  [][lastOp' = "update" =>
       \A c \in Active :
         NotDue(now', lastUpdateTime[c], clusters[c].speed) =>
           /\ lastUpdateTime'[c] = lastUpdateTime[c]
           /\ \A i \in RangeOf(clusters, c) : pixelIndices'[i] = pixelIndices[i]]_vars

\* after an update across the wraparound of millis(): one cluster was skipped
\* (its timer is numerically larger than the current time) while another
\* cluster with pixels was stepped
C6_Witness ==
  /\ lastOp = "update"
  /\ \E c, d \in Active :
       /\ NotDue(now, lastUpdateTime[c], clusters[c].speed)
       /\ lastUpdateTime[c] # now
       /\ lastUpdateTime[c][1] > now[1]
       /\ clusters[c].pixels > 0
       /\ lastUpdateTime[d] = now
       /\ clusters[d].pixels > 1

-----------------------------------------------------------------------------
(* C7 *)

\* C7: a setPortfolioMode whose input yields no cluster leaves the system
\* inactive, and while it is inactive an update changes neither the pixel
\* ordering, nor the grid, nor a timer, and leaves it inactive.
C7_InactiveUpdateNoOp ==
  [][/\ (lastOp' = "apply" /\ ZeroClusterInput(input')) => ~inPortfolioMode'
     /\ (lastOp' = "update" /\ ~inPortfolioMode) =>
          /\ ~inPortfolioMode'
          /\ pixelIndices' = pixelIndices
          /\ pixelClusterID' = pixelClusterID
          /\ lastUpdateTime' = lastUpdateTime]_vars

\* an update ran after an empty configuration replaced an active one whose
\* grid, descriptors and timers are still in memory
C7_Witness ==
  /\ lastOp = "update" /\ ~inPortfolioMode
  /\ ZeroClusterInput(input)
  /\ pixelClusterID # ZeroGrid
  /\ clusters[1].pixels > 0
  /\ lastUpdateTime # ZeroTimers

-----------------------------------------------------------------------------
(* C8 *)

\* C8: a setPortfolioMode that yields zero clusters changes the active flag
\* only: grid, ordering, timers, descriptors and numClusters keep their values.
C8_OnlyFlagChanges ==
  [][(lastOp' = "apply" /\ numClusters' = 0) =>
       /\ ~inPortfolioMode'
       /\ UNCHANGED <<pixelClusterID, pixelIndices, lastUpdateTime, clusters,
                      numClusters>>]_vars

\* C8 as amended: a setPortfolioMode that yields zero clusters clears the
\* active flag and sets numClusters to 0; grid, ordering, timers and the
\* stored descriptors keep their values.
C8_OnlyFlagAndCountChange ==
  [][(lastOp' = "apply" /\ ZeroClusterInput(input')) =>
       /\ ~inPortfolioMode' /\ numClusters' = 0
       /\ UNCHANGED <<pixelClusterID, pixelIndices, lastUpdateTime, clusters>>]_vars

\* an empty configuration was applied over an active one that had been animated
C8_Witness ==
  /\ lastOp = "apply" /\ ZeroClusterInput(input)
  /\ ~inPortfolioMode /\ numClusters = 0
  /\ pixelClusterID # ZeroGrid
  /\ clusters[0].pixels > 0
  /\ lastUpdateTime # ZeroTimers

-----------------------------------------------------------------------------
(* C9 *)

\* C9: every grid cell holds 0 or the clusterID of a currently active cluster.
C9_GridHoldsActiveIds ==
  \A v \in ValuesIn(pixelClusterID) :
    v = 0 \/ \E c \in Active : clusters[c].clusterID = v

-----------------------------------------------------------------------------
(* C10 *)

\* C10: setPortfolioMode is idempotent: applying the input just applied once
\* more changes nothing, and the timers are all zero both times.
C10_IdempotentZeroTimers ==
  lastOp = "apply" =>
    /\ setPortfolioMode(input) = Globals
    /\ lastUpdateTime = ZeroTimers

\* C10 as amended: applying the input just applied once more changes nothing;
\* the timers are all zero both times when the input yields a cluster.
C10_Idempotent ==
  lastOp = "apply" =>
    /\ setPortfolioMode(input) = Globals
    /\ numClusters > 0 => lastUpdateTime = ZeroTimers

\* a configuration with clusters was applied after updates had moved pixels
\* and set timers under an earlier one
C10_Witness ==
  /\ lastOp = "apply" /\ numClusters > 1 /\ updates > 0
  /\ \E i \in Positions : pixelIndices[i] \notin {i, (TOTAL_PIXELS - 1) - i}

-----------------------------------------------------------------------------
(* C11 *)

\* min(max(raw, lo), hi)
Clamped(raw, lo, hi) ==
  LET m == IF raw > lo THEN raw ELSE lo
  IN  IF m < hi THEN m ELSE hi

\* the record of the last input that cluster slot c was loaded from
RecordOf(c) == input.objs[c + 1]

\* C11: every loaded numeric field is the raw integer of its record clamped to
\* the documented bounds: pixels to [0,104], brightness to [80,220], clustering
\* to [1,10], speed to [10,500].
C11_FieldsAreClampedRaw ==
  \A c \in Active :
    /\ clusters[c].pixels = Clamped(extractInt(RecordOf(c), "pixels"), 0, TOTAL_PIXELS)
    /\ clusters[c].brightness = Clamped(extractInt(RecordOf(c), "brightness"), 80, 220)
    /\ clusters[c].clustering = Clamped(extractInt(RecordOf(c), "clustering"), 1, 10)
    /\ clusters[c].speed = Clamped(extractInt(RecordOf(c), "speed"), 10, 500)

\* What the code keeps of C11: the fields other than brightness.
C11_OtherFieldsAreClampedRaw ==
  \A c \in Active :
    /\ clusters[c].pixels = Clamped(extractInt(RecordOf(c), "pixels"), 0, TOTAL_PIXELS)
    /\ clusters[c].clustering = Clamped(extractInt(RecordOf(c), "clustering"), 1, 10)
    /\ clusters[c].speed = Clamped(extractInt(RecordOf(c), "speed"), 10, 500)

-----------------------------------------------------------------------------
(* C12 *)

\* C12: every active cluster has brightness in [80,220], clustering in [1,10]
\* and speed in [10,500], whatever the raw values were.
C12_FieldsInRange ==
  \A c \in Active :
    /\ clusters[c].brightness \in 80 .. 220
    /\ clusters[c].clustering \in 1 .. 10
    /\ clusters[c].speed \in 10 .. 500

\* clusters loaded from records whose raw values lie below and above every
\* range (negative, zero and huge)
C12_Witness ==
  /\ lastOp = "apply" /\ numClusters = 2
  /\ extractInt(RecordOf(0), "brightness") < 0
  /\ extractInt(RecordOf(0), "clustering") = 0
  /\ extractInt(RecordOf(0), "speed") > 500
  /\ extractInt(RecordOf(1), "brightness") > UINT8_MOD
  /\ extractInt(RecordOf(1), "clustering") > 10
  /\ extractInt(RecordOf(1), "speed") = 0

-----------------------------------------------------------------------------
(* C13 *)

\* the cells of the matrix that are 8-adjacent to (x, y)
Adjacent(x, y) ==
  { c \in ((x - 1) .. (x + 1)) \X ((y - 1) .. (y + 1)) :
      c[1] \in Cols /\ c[2] \in Rows /\ c # <<x, y>> }

IsCorner(x, y) == x \in {0, MATRIX_WIDTH - 1} /\ y \in {0, MATRIX_HEIGHT - 1}
IsEdge(x, y) == x \in {0, MATRIX_WIDTH - 1} \/ y \in {0, MATRIX_HEIGHT - 1}

NeighbourLimit(x, y) == IF IsCorner(x, y) THEN 3 ELSE IF IsEdge(x, y) THEN 5 ELSE 8

\* C13: for every cell and every id both neighbour counts are counts over the
\* 8-adjacent cells inside the matrix (no wraparound, the cell itself
\* excluded): at most 3 at a corner, 5 on an edge and 8 in the interior.
C13_NeighbourCountsBounded ==
  probe.fn = "count" =>
    /\ probe.same = Cardinality({ c \in Adjacent(probe.x, probe.y) :
                                    pixelClusterID[c[2]][c[1]] = probe.id })
    /\ probe.other = Cardinality({ c \in Adjacent(probe.x, probe.y) :
                                     pixelClusterID[c[2]][c[1]] \notin {0, probe.id} })
    /\ probe.same <= NeighbourLimit(probe.x, probe.y)
    /\ probe.other <= NeighbourLimit(probe.x, probe.y)

\* on a grid filled by one cluster a count reaches the limit of its cell
C13_Witness ==
  /\ probe.fn = "count"
  /\ \/ IsCorner(probe.x, probe.y) /\ probe.same = 3
     \/ IsEdge(probe.x, probe.y) /\ ~IsCorner(probe.x, probe.y) /\ probe.other = 5
  /\ countClusterNeighbors(pixelClusterID, 6, 4, 1) = 8
  /\ countOtherClusterNeighbors(pixelClusterID, 6, 4, 2) = 8

-----------------------------------------------------------------------------
(* C14 *)

\* C14: while the pixel counts fit the matrix, in every state the cell at
\* pixelIndices[i] holds the clusterID of the active cluster whose logical
\* range contains i.
C14_GridFollowsOrdering ==
  SumPixels <= TOTAL_PIXELS =>
    \A c \in Active :
      \A i \in IndicesOf(clusters, c) :
        CellAt(pixelClusterID, pixelIndices[i]) = clusters[c].clusterID

\* updates have exchanged entries of the ordering inside the ranges of two
\* clusters with different ids
C14_Witness ==
  /\ lastOp = "update" /\ SumPixels <= TOTAL_PIXELS
  /\ \E c, d \in Active :
       /\ clusters[c].clusterID # clusters[d].clusterID
       /\ \E i \in IndicesOf(clusters, c) :
            pixelIndices[i] \notin {i, (TOTAL_PIXELS - 1) - i}
       /\ \E j \in IndicesOf(clusters, d) :
            pixelIndices[j] \notin {j, (TOTAL_PIXELS - 1) - j}

-----------------------------------------------------------------------------
(* C15 *)

\* the entries of c's logical range that the step changes
ChangedIn(c) ==
  { i \in IndicesOf(clusters, c) \cap Positions : pixelIndices'[i] # pixelIndices[i] }

\* the step leaves c's range alone or exchanges two of its entries
AtMostOneSwapIn(c) ==
  \A D \in { ChangedIn(c) } :
    \/ D = {}
    \/ \E i, j \in D :
         /\ i # j /\ D = {i, j}
         /\ pixelIndices'[i] = pixelIndices[j]
         /\ pixelIndices'[j] = pixelIndices[i]

\* the step changes no entry of a not-due cluster and no entry outside the
\* ranges of the active clusters
OnlyDueRangesChange ==
  /\ \A c \in Active :
       NotDue(now', lastUpdateTime[c], clusters[c].speed) => ChangedIn(c) = {}
  /\ \A i \in Positions :
       (\A c \in Active : i \notin IndicesOf(clusters, c)) =>
         pixelIndices'[i] = pixelIndices[i]

\* C15: one update changes the pixel ordering by at most one transposition
\* per due cluster, between two entries of that cluster's logical range;
\* entries of not-due clusters and entries beyond the last range are unchanged.
C15_OneSwapPerDueCluster ==
  [][lastOp' = "update" =>
       /\ \A c \in Active : AtMostOneSwapIn(c)
       /\ OnlyDueRangesChange]_vars

\* What the code keeps of C15: the same while the pixel counts fit the matrix.
C15_OneSwapWhenFits ==
  [][(lastOp' = "update" /\ SumPixels <= TOTAL_PIXELS) =>
       /\ \A c \in Active : AtMostOneSwapIn(c)
       /\ OnlyDueRangesChange]_vars

-----------------------------------------------------------------------------
(* C16 *)

\* the logical index of the i-th sample of the observed pass, and its score
SampleIdx(i) == DrawnIdx(clusters[probe.c], probe.pixelOffset, probe.s[i])

SampleScore(i) ==
  Score(pixelClusterID, pixelIndices, probe.mem, clusters[probe.c], SampleIdx(i))

-----------------------------------------------------------------------------
(* C17 *)

\* C17: in an update at time t every active cluster that is due,
\* (t - lastUpdateTime[c]) >= speed[c] before the call, gets lastUpdateTime[c]
\* = t, and every other active cluster keeps its timer, whatever the other
\* clusters are and do in the same call.
C17_SteppedIffDue ==
  [][lastOp' = "update" =>
       \A c \in Active :
         /\ ~NotDue(now', lastUpdateTime[c], clusters[c].speed)
              => lastUpdateTime'[c] = now'
         /\ NotDue(now', lastUpdateTime[c], clusters[c].speed)
              => lastUpdateTime'[c] = lastUpdateTime[c]]_vars

\* an update stepped a cluster that comes after a skipped cluster and after a
\* cluster without pixels
C17_Witness ==
  /\ lastOp = "update"
  /\ \E a, b, c \in Active :
       /\ a < c /\ b < c
       /\ lastUpdateTime[a] # now /\ clusters[a].pixels > 0
       /\ clusters[b].pixels = 0
       /\ lastUpdateTime[c] = now /\ clusters[c].pixels > 0

-----------------------------------------------------------------------------
(* C18 *)

\* pixelIdx when the allocation loop of setPortfolioMode reaches cluster c
RECURSIVE AssignStart(_, _)
AssignStart(cl, c) ==
  IF c = 0 THEN 0 ELSE AssignedUpTo(cl[c - 1], AssignStart(cl, c - 1))

\* the logical indices setPortfolioMode assigned to cluster c
AssignedTo(cl, c) ==
  UNION { from .. (AssignedUpTo(cl[c], from) - 1) : from \in { AssignStart(cl, c) } }

\* the logical indices the last update drew from for cluster c
RangeUsed(c) == offsetUsed[c] .. (offsetUsed[c] + clusters[c].pixels - 1)

\* C18: the range the cohesion engine uses for a cluster starts at the sum of
\* the pixel counts of the clusters before it and is the range that
\* setPortfolioMode assigned to the cluster, whichever earlier clusters were
\* skipped, were stepped or have no pixels.
C18_RangeUsedIsAssigned ==
  \A c \in Active :
    offsetUsed[c] # -1 =>
      /\ offsetUsed[c] = OffsetOf(clusters, c)
      /\ RangeUsed(c) = AssignedTo(clusters, c)

\* What the code keeps of C18: the offset is always the sum of the pixel
\* counts before the cluster, and the range is the assigned one while the
\* pixel counts fit the matrix.
C18_OffsetIsSumBefore ==
  \A c \in Active :
    offsetUsed[c] # -1 =>
      /\ offsetUsed[c] = OffsetOf(clusters, c)
      /\ SumPixels <= TOTAL_PIXELS => RangeUsed(c) = AssignedTo(clusters, c)

\* an update stepped a cluster that comes after a skipped cluster and after a
\* cluster without pixels, at an offset that counts the skipped one
C18_OffsetWitness ==
  /\ lastOp = "update"
  /\ \E a, b, c \in Active :
       /\ a < c /\ b < c
       /\ offsetUsed[a] = -1 /\ clusters[a].pixels > 0
       /\ clusters[b].pixels = 0
       /\ offsetUsed[c] >= clusters[a].pixels

-----------------------------------------------------------------------------
(* C19 *)

\* a < b for 32-bit unsigned values
ULongLt(a, b) == a[1] < b[1] \/ (a[1] = b[1] /\ a[2] < b[2])

\* the time cluster c has waited since its last step, at time t
Waited(c, t) == ULongSub(t, lastUpdateTime[c])

-----------------------------------------------------------------------------
(* C20 *)

\* ord holds every physical position 0..103 exactly once
IsPermutationOfPositions(ord) ==
  /\ \A i \in Positions : ord[i] \in Positions
  /\ Cardinality({ ord[i] : i \in Positions }) = TOTAL_PIXELS

\* C20: the pixel ordering stays a permutation of 0..103: setPortfolioMode
\* does not write it, and an update under a configuration whose pixel counts
\* sum to at most 104 takes a permutation to a permutation.
C20_OrderingStaysPermutation ==
  [][/\ lastOp' = "apply" => pixelIndices' = pixelIndices
     /\ (lastOp' = "update" /\ SumPixels <= TOTAL_PIXELS
           /\ IsPermutationOfPositions(pixelIndices))
          => IsPermutationOfPositions(pixelIndices')]_vars

\* The same as an invariant: no execution that stays inside the arrays
\* leaves an ordering that is not a permutation.
C20_PermutationUnlessOutOfBounds ==
  ~oob => IsPermutationOfPositions(pixelIndices)

\* after two updates: two entries of the ordering were moved by different
\* exchanges and the ordering is a permutation
C20_Witness ==
  /\ lastOp = "update" /\ updates = 2 /\ SumPixels <= TOTAL_PIXELS
  /\ IsPermutationOfPositions(pixelIndices)
  /\ \E i, j \in Positions :
       /\ i < j
       /\ pixelIndices[i] \notin {i, (TOTAL_PIXELS - 1) - i}
       /\ pixelIndices[j] \notin {j, (TOTAL_PIXELS - 1) - j}
       /\ pixelIndices[i] \notin {j, (TOTAL_PIXELS - 1) - j}

====
